---- MODULE Spec2Model ----
(***************************************************************************)
(* State-machine model of SpreadingPostsBot.                               *)
(*                                                                         *)
(*   app  : WhatsApp status mirror.  A sqlite table of inbound status      *)
(*          events, a webhook that inserts rows, and a polling Worker      *)
(*          that claims rows with fetch_next_event and drives them         *)
(*          through process_event.                                         *)
(*   bot  : Telegram inbox.  A sqlite table of tasks, an in-memory         *)
(*          asyncio queue of task ids and WORKER_CONCURRENCY worker        *)
(*          coroutines that drive a task through download, prepare and     *)
(*          notify in _process_task.                                       *)
(*   publisher : a polling loop that reads the queued rows of the          *)
(*          deliveries table and posts each as a Telegram story.           *)
(*                                                                         *)
(* Times are UTC instants in seconds.  The code stores them as isoformat   *)
(* strings of timezone-aware UTC datetimes and sqlite compares them as     *)
(* text; for that fixed format the text order is the order of the          *)
(* instants, so the model compares the instants.                           *)
(***************************************************************************)
EXTENDS Integers, Sequences, FiniteSets, TLC

----------------------------------------------------------------------------
(* Bounds of the model *)

\* rows the inbound_status_events table may hold
MaxEvents == 2
\* the wall clock stops advancing here
MaxClock == 60
\* MAX_ATTEMPTS is configured between 1 and this
MaxAttemptsCfg == 2
\* seconds the clock advances in one step
TickStep == 30
\* process kills over one run
MaxCrashes == 1
\* rows the bot's tasks table may hold
MaxTasks == 2
\* MAX_RETRIES is configured between 1 and this
MaxRetriesCfg == 2
\* kills of the bot process over one run
MaxBotCrashes == 1
\* the retry policies are called with attempt numbers up to this
MaxAttemptNumber == 10
\* ids waiting in _QUEUE when enqueue_task is called from outside the pipeline
MaxQueue == 2
\* rows the deliveries table may hold
MaxDeliveries == 3
\* kills of the publisher process over one run
MaxPubCrashes == 1
MaxMessages == 2
\* messages one webhook payload may carry
MaxPayload == 2

----------------------------------------------------------------------------
(* Values *)

\* SQL NULL / Python None in a text column
NULL == "NULL"
\* SQL NULL in a timestamp column
NoTime == -1
\* no row (fetchone() returned None, insert_event returned None)
NoRow == 0
\* nobody holds the sqlite write lock
NoLock == "nolock"

\* The two entry points that construct and start a Worker on the same db_path.
Workers == {"web", "standalone"}

\* correlation keys a webhook message may carry (payload hashes are numbered)
WhapiIds == {NULL, "w1"}
StatusIds == {NULL, "s1"}
Hashes == 1..MaxEvents

VARIABLES
    events,        \* app: table inbound_status_events, row id = index
    db_lock,       \* app: holder of sqlite's write lock (BEGIN IMMEDIATE)
    wk,            \* app: each Worker's position in run()/process_event()
    clock,         \* wall clock, seconds
    max_attempts,  \* app: settings.max_attempts
    insert_ret,    \* app: value returned by the latest insert_event
    crashes,       \* process kills so far
    hist,          \* history of each row, for stating the claims
    stop_call,     \* app: each Worker's stop event and its call of stop()
    tasks,         \* bot: table tasks, row id = index
    queue,         \* bot: _QUEUE
    in_progress,   \* bot: _IN_PROGRESS
    bw,            \* bot: each worker_loop's position in _process_task
    timers,        \* bot: delayed_reenqueue coroutines that are sleeping
    bot_up,        \* bot: the process is running
    max_retries,   \* bot: _SETTINGS.MAX_RETRIES
    send_raises,   \* bot: whether _BOT.send_message can raise while the bot runs
    bot_crashes,   \* kills of the bot process so far
    interrupted,   \* bot: tasks whose prepare stage a kill has interrupted
    delayed,       \* bot: tasks whose delayed_reenqueue the latest kill has ended
    deliveries,    \* bot, publisher: table deliveries, row id = index
    pub,           \* publisher: position in run_loop/process_delivery
    stories,       \* the stories send_story has posted, counted per delivery
    pub_crashes,   \* kills of the publisher process so far
    rival,         \* publisher: run_loop of a second process on the same store
    hook,          \* app: a webhook payload and what extract_status_events made of it
    probe          \* retry policy: one call of _next_attempt and of _next_delay

appVars == <<events, db_lock, wk, clock, max_attempts, insert_ret, crashes, hist,
             stop_call>>

botVars == <<tasks, queue, in_progress, bw, timers, bot_up, max_retries, send_raises,
             bot_crashes, interrupted, delayed>>

pubVars == <<deliveries, pub, stories, pub_crashes, rival>>

vars == <<events, db_lock, wk, clock, max_attempts, insert_ret, crashes, hist,
          stop_call,
          tasks, queue, in_progress, bw, timers, bot_up, max_retries, send_raises,
          bot_crashes, interrupted, delayed, deliveries, pub, stories, pub_crashes, rival,
          hook,
          probe>>

\* what the actions of app leave alone
notApp == <<botVars, pubVars, hook, probe>>

\* what the actions of bot leave alone
notBot == <<appVars, pubVars, hook, probe>>

\* what the actions of publisher leave alone
notPub == <<appVars, botVars, rival, hook, probe>>

\* what the actions of a second publisher process leave alone
notRival == <<appVars, botVars, pub, pub_crashes, hook, probe>>

----------------------------------------------------------------------------
(* app/db.py *)

EventIds == 1..Len(events)

NewRow(id, w, s, h, now) ==
    [id |-> id, whapi_event_id |-> w, source_status_id |-> s,
     received_at |-> now, payload_hash |-> h,
     state |-> "queued", attempts |-> 0, last_error |-> NULL,
     stored_original_path |-> NULL, stored_prepared_path |-> NULL,
     next_attempt_at |-> NoTime, posted_at |-> NoTime]

\* a table on which only payload_hash were UNIQUE
UniqueViolationHashOnly(rows, w, s, h) ==
    \E i \in 1..Len(rows) : rows[i].payload_hash = h

\* The UNIQUE columns of the table.  A NULL never collides with anything.
UniqueViolation(rows, w, s, h) ==
    \E i \in 1..Len(rows) :
        \/ (w # NULL /\ rows[i].whapi_event_id = w)
        \/ (s # NULL /\ rows[i].source_status_id = s)
        \/ rows[i].payload_hash = h

\* insert_event: INSERT OR IGNORE, commit, rowcount == 0 -> None else lastrowid
InsertEvent(w, s, h) ==
    /\ db_lock = NoLock
    /\ IF UniqueViolation(events, w, s, h)
       THEN /\ events' = events
            /\ insert_ret' = NoRow
            /\ hist' = hist
       ELSE /\ Len(events) < MaxEvents
            /\ events' = Append(events, NewRow(Len(events) + 1, w, s, h, clock))
            /\ insert_ret' = Len(events) + 1
            /\ hist' = Append(hist, [claims |-> 0, rejected |-> FALSE, by |-> NoLock])
    /\ UNCHANGED <<db_lock, wk, clock, max_attempts, stop_call, crashes>>
    /\ UNCHANGED notApp

\* a WHERE clause with attempts <= ? in place of attempts < ?
EligibleAnyAttempts(row, now, maxa) ==
    /\ row.state \in {"queued", "failed"}
    /\ row.attempts <= maxa
    /\ (row.next_attempt_at = NoTime \/ row.next_attempt_at <= now)

\* a WHERE clause that takes no failed row
EligibleQueuedOnly(row, now, maxa) ==
    /\ row.state = "queued"
    /\ row.attempts < maxa
    /\ (row.next_attempt_at = NoTime \/ row.next_attempt_at <= now)

\* a WHERE clause that does not look at next_attempt_at
EligibleAnyTime(row, now, maxa) ==
    /\ row.state \in {"queued", "failed"}
    /\ row.attempts < maxa

\* a WHERE clause that does not look at the state
EligibleAnyState(row, now, maxa) ==
    /\ row.attempts < maxa
    /\ (row.next_attempt_at = NoTime \/ row.next_attempt_at <= now)

\* WHERE clause of fetch_next_event
Eligible(row, now, maxa) ==
    /\ row.state \in {"queued", "failed"}
    /\ row.attempts < maxa
    /\ (row.next_attempt_at = NoTime \/ row.next_attempt_at <= now)

\* ORDER BY received_at ASC: received_at is utc_now() at the insert, so two
\* rows inserted within one step of the model's clock were received in the
\* order of their ids.
ReceivedBefore(a, b) ==
    \/ a.received_at < b.received_at
    \/ (a.received_at = b.received_at /\ a.id < b.id)

\* The SELECT of fetch_next_event: the first claimable row (LIMIT 1), if any.
SelectNext(rows, now, maxa) ==
    {i \in 1..Len(rows) :
        /\ Eligible(rows[i], now, maxa)
        /\ \A j \in 1..Len(rows) \ {i} :
              Eligible(rows[j], now, maxa) => ReceivedBefore(rows[i], rows[j])}

NoEvent == NewRow(NoRow, NULL, NULL, 0, NoTime)

Idle(pc) == [pc |-> pc, now |-> NoTime, event |-> NoEvent]

\* a plain BEGIN would take no lock before the SELECT
BeginDeferred(w) == TRUE

\* BEGIN IMMEDIATE takes the write lock or waits for it.
BeginImmediate(w) == db_lock = NoLock

\* Worker.run: now = utc_now(); fetch_next_event: connect, BEGIN IMMEDIATE
FetchBegin(w) ==
    /\ wk[w].pc = "poll"
    /\ ~stop_call[w].set
    /\ BeginImmediate(w)
    /\ db_lock' = w
    /\ wk' = [wk EXCEPT ![w].pc = "tx", ![w].now = clock]
    /\ UNCHANGED <<events, clock, max_attempts, stop_call, insert_ret, crashes, hist>>
    /\ UNCHANGED notApp

\* fetch_next_event: the SELECT; no row -> COMMIT, return None, sleep, loop
FetchSelect(w) ==
    /\ wk[w].pc = "tx"
    /\ LET found == SelectNext(events, wk[w].now, max_attempts) IN
       IF found = {}
       THEN /\ wk' = [wk EXCEPT ![w] = Idle("poll")]
            /\ db_lock' = NoLock
       ELSE /\ \E r \in found :
                 wk' = [wk EXCEPT ![w].pc = "selected", ![w].event = events[r]]
            /\ db_lock' = db_lock
    /\ UNCHANGED <<events, clock, max_attempts, stop_call, insert_ret, crashes, hist>>
    /\ UNCHANGED notApp

\* a fetch_next_event that returned the row with its transaction still open
FetchUpdateHolding(w) ==
    /\ wk[w].pc = "selected"
    /\ LET r == wk[w].event.id IN
       /\ events' = [events EXCEPT ![r].state = "processing",
                                   ![r].attempts = @ + 1]
       /\ hist' = [hist EXCEPT ![r].claims = @ + 1, ![r].by = w]
    /\ db_lock' = db_lock
    /\ wk' = [wk EXCEPT ![w].pc = "download", ![w].now = NoTime]
    /\ UNCHANGED <<clock, max_attempts, stop_call, insert_ret, crashes>>
    /\ UNCHANGED notApp

\* fetch_next_event: the UPDATE, COMMIT, return the row as it was selected
FetchUpdate(w) ==
    /\ wk[w].pc = "selected"
    /\ LET r == wk[w].event.id IN
       /\ events' = [events EXCEPT ![r].state = "processing",
                                   ![r].attempts = @ + 1]
       /\ hist' = [hist EXCEPT ![r].claims = @ + 1, ![r].by = w]
    /\ db_lock' = NoLock
    /\ wk' = [wk EXCEPT ![w].pc = "download", ![w].now = NoTime]
    /\ UNCHANGED <<clock, max_attempts, stop_call, insert_ret, crashes>>
    /\ UNCHANGED notApp

\* mark_processing_paths
mark_processing_paths(rows, id) ==
    [rows EXCEPT ![id].stored_original_path = "original",
                 ![id].stored_prepared_path = "prepared"]

\* a mark_posted that leaves last_error as it is
mark_posted_keeping_error(rows, id, now) ==
    [rows EXCEPT ![id].state = "posted",
                 ![id].posted_at = now]

\* mark_posted
mark_posted(rows, id, now) ==
    [rows EXCEPT ![id].state = "posted",
                 ![id].posted_at = now,
                 ![id].last_error = NULL]

\* a mark_failed that counts the failure in attempts
mark_failed_counting(rows, id, next_attempt_at) ==
    [rows EXCEPT ![id].state = "failed",
                 ![id].last_error = "error",
                 ![id].next_attempt_at = next_attempt_at,
                 ![id].attempts = @ + 1]

\* mark_failed
mark_failed(rows, id, next_attempt_at) ==
    [rows EXCEPT ![id].state = "failed",
                 ![id].last_error = "error",
                 ![id].next_attempt_at = next_attempt_at]

----------------------------------------------------------------------------
(* app/processor.py *)

backoff == <<60, 300, 900, 3600, 7200, 14400, 28800, 57600>>

\* the table indexed with attempts in place of attempts - 1
_next_attempt_zero_based(attempts, now) ==
    IF attempts <= 0 THEN NoTime
    ELSE IF attempts >= Len(backoff) THEN NoTime
    ELSE now + backoff[attempts + 1]

\* _next_attempt, with utc now passed in; None is NoTime.  Python indexes the
\* table from 0, the sequence here starts at 1.
_next_attempt(attempts, now) ==
    IF attempts <= 0 THEN NoTime
    ELSE IF attempts > Len(backoff) THEN NoTime
    ELSE now + backoff[attempts]

\* The except clauses of process_event: mark_failed with the retry time computed
\* from the snapshot's attempts; an exception that is no WhapiError,
\* CalledProcessError or OSError ("unexpected") is re-raised and ends run().
Failed(w, outcome) ==
    /\ events' = mark_failed(events, wk[w].event.id,
                             _next_attempt(wk[w].event.attempts + 1, clock))
    /\ wk' = [wk EXCEPT ![w] = Idle(IF outcome = "unexpected" THEN "dead" ELSE "poll")]

\* process_event up to mark_processing_paths: download_media, write the original,
\* prepare the media, persist both paths; or fail
DownloadPrepare(w) ==
    /\ wk[w].pc = "download"
    /\ db_lock = NoLock
    /\ \E outcome \in {"ok", "error", "unexpected"} :
         /\ IF outcome = "ok"
            THEN /\ events' = mark_processing_paths(events, wk[w].event.id)
                 /\ wk' = [wk EXCEPT ![w].pc = "publish"]
            ELSE Failed(w, outcome)
    /\ UNCHANGED <<hist, db_lock, clock, max_attempts, stop_call, insert_ret, crashes>>
    /\ UNCHANGED notApp

\* process_event from the return of download_media to the call of the
\* transform: the original is written; a photo, and a video that
\* _video_needs_reencode, go to _prepare_image / _prepare_video ("transform"),
\* any other video is posted as it is and its paths are persisted at once
Download(w) ==
    /\ wk[w].pc = "download"
    /\ db_lock = NoLock
    /\ \E outcome \in {"transform", "as_is", "error", "unexpected"} :
         IF outcome = "transform"
         THEN /\ wk' = [wk EXCEPT ![w].pc = "transform"]
              /\ events' = events
         ELSE IF outcome = "as_is"
         THEN /\ events' = mark_processing_paths(events, wk[w].event.id)
              /\ wk' = [wk EXCEPT ![w].pc = "publish"]
         ELSE Failed(w, outcome)
    /\ UNCHANGED <<hist, db_lock, clock, max_attempts, stop_call, insert_ret, crashes>>
    /\ UNCHANGED notApp

\* process_event: _prepare_image / _prepare_video returns (Image.save,
\* subprocess.run of ffmpeg) and mark_processing_paths persists both paths; or
\* the transform raises
Transform(w) ==
    /\ wk[w].pc = "transform"
    /\ db_lock = NoLock
    /\ \E outcome \in {"ok", "error", "unexpected"} :
         IF outcome = "ok"
         THEN /\ events' = mark_processing_paths(events, wk[w].event.id)
              /\ wk' = [wk EXCEPT ![w].pc = "publish"]
         ELSE Failed(w, outcome)
    /\ UNCHANGED <<hist, db_lock, clock, max_attempts, stop_call, insert_ret, crashes>>
    /\ UNCHANGED notApp

\* The event loop of the web process runs the webhook handlers and the run()
\* task of its Worker (lifespan: asyncio.create_task).  _prepare_image and
\* _prepare_video are plain calls inside the coroutine, without await,
\* executor or thread: while one runs, the loop runs nothing else.
LoopFree == wk["web"].pc # "transform"

\* whapi_webhook in the web process: the handler runs when the loop is free
\* and awaits insert_event
WebhookInsert(w, s, h) ==
    /\ LoopFree
    /\ InsertEvent(w, s, h)

\* process_event from upload_media on: upload_media and post_status against the
\* target account, then mark_posted; or fail ("rejected": the target refuses the
\* post for good, "unavailable": it may accept it later; both are WhapiError)
Publish(w) ==
    /\ wk[w].pc = "publish"
    /\ db_lock = NoLock
    /\ \E outcome \in {"ok", "rejected", "unavailable", "unexpected"} :
         /\ IF outcome = "ok"
            THEN /\ events' = mark_posted(events, wk[w].event.id, clock)
                 /\ wk' = [wk EXCEPT ![w] = Idle("poll")]
            ELSE Failed(w, outcome)
         /\ hist' = [hist EXCEPT ![wk[w].event.id].rejected =
                                    IF outcome = "rejected" THEN TRUE ELSE @]
    /\ UNCHANGED <<db_lock, clock, max_attempts, stop_call, insert_ret, crashes>>
    /\ UNCHANGED notApp

----------------------------------------------------------------------------
(* Process lifetime and time *)

\* the pcs at which a worker has been handed an event by fetch_next_event
Holding == {"download", "publish"}

Holds(w, e) == wk[w].pc \in Holding /\ wk[w].event.id = e

\* Worker.__init__: the stop event is clear, stop() has not been called
NotStopped == [set |-> FALSE, during |-> "none", ended |-> "no"]

\* stop() returns at once
NotAwaited(w) == TRUE

\* stop: await self._task is over when run() has returned or has raised
Awaited(w) == wk[w].pc \in {"ended", "dead"}

\* lifespan after yield / runner on KeyboardInterrupt: Worker.stop sets the stop
\* event and starts to wait for the run task ("during": where run() was then)
stop(w) ==
    /\ wk[w].pc # "off"
    /\ ~stop_call[w].set
    /\ stop_call' = [stop_call EXCEPT ![w] = [set |-> TRUE, during |-> wk[w].pc,
                                              ended |-> "no"]]
    /\ UNCHANGED <<events, db_lock, wk, clock, max_attempts, insert_ret, crashes, hist>>
    /\ UNCHANGED notApp

\* Worker.run: the while condition finds the stop event set; run() returns
RunEnds(w) ==
    /\ wk[w].pc = "poll"
    /\ stop_call[w].set
    /\ wk' = [wk EXCEPT ![w].pc = "ended"]
    /\ UNCHANGED <<events, db_lock, clock, max_attempts, stop_call, insert_ret, crashes, hist>>
    /\ UNCHANGED notApp

\* Worker.stop: await self._task ends; stop() returns, or raises what run()
\* raised, and the process exits
StopEnds(w) ==
    /\ stop_call[w].set
    /\ stop_call[w].ended = "no"
    /\ Awaited(w)
    /\ stop_call' = [stop_call EXCEPT ![w].ended =
                        IF wk[w].pc = "dead" THEN "raised" ELSE "returned"]
    /\ wk' = [wk EXCEPT ![w] = Idle("off")]
    /\ UNCHANGED <<events, db_lock, clock, max_attempts, insert_ret, crashes, hist>>
    /\ UNCHANGED notApp

\* lifespan / main(): init_db (idempotent), Worker(settings), worker.start()
Start(w) ==
    /\ wk[w].pc = "off"
    /\ wk' = [wk EXCEPT ![w] = Idle("poll")]
    /\ stop_call' = [stop_call EXCEPT ![w] = NotStopped]
    /\ UNCHANGED <<events, db_lock, clock, max_attempts, insert_ret, crashes, hist>>
    /\ UNCHANGED notApp

\* The process is killed: its memory is gone, an open transaction is rolled back.
Crash(w) ==
    /\ wk[w].pc # "off"
    /\ crashes < MaxCrashes
    /\ crashes' = crashes + 1
    /\ wk' = [wk EXCEPT ![w] = Idle("off")]
    /\ db_lock' = IF db_lock = w THEN NoLock ELSE db_lock
    /\ stop_call' = [stop_call EXCEPT ![w] = NotStopped]
    /\ UNCHANGED <<events, clock, max_attempts, insert_ret, hist>>
    /\ UNCHANGED notApp

Tick ==
    /\ clock + TickStep <= MaxClock
    /\ clock' = clock + TickStep
    /\ UNCHANGED <<events, db_lock, wk, max_attempts, stop_call, insert_ret, crashes, hist>>
    /\ UNCHANGED notApp

----------------------------------------------------------------------------
(* bot/db.py *)

TaskIds == 1..Len(tasks)

\* what the prepare stage can transform (_prepare_media, prepare_to_story)
Supported == {"photo", "video"}

\* media types of the rows create_task writes ("sticker": any other string)
MediaTypes == {"photo", "video", "sticker"}

\* file_id: str | None
FileIds == {NULL, "file"}

\* create_task: the INSERT; attempts DEFAULT 0, the other columns NULL.  The
\* row keeps the message it was made for (user_id, tg_message_id and
\* file_unique_id, here one number, which the handler fills in).
NewTask(media_type, file_id, status) ==
    [tg_message_id |-> NoRow,
     media_type |-> media_type, file_id |-> file_id,
     src_path |-> NULL, prepared_path |-> NULL,
     status |-> status, attempts |-> 0, last_error |-> NULL]

set_task_status(rows, id, status) ==
    [rows EXCEPT ![id].status = status]

set_task_preparing(rows, id) ==
    [rows EXCEPT ![id].status = "preparing", ![id].last_error = NULL]

\* an UPDATE that stores the prepared path and leaves the status column alone
set_prepared_path_only(rows, id) ==
    [rows EXCEPT ![id].prepared_path = "prepared", ![id].last_error = NULL]

set_task_prepared(rows, id) ==
    [rows EXCEPT ![id].prepared_path = "prepared", ![id].status = "prepared",
                 ![id].last_error = NULL]

set_task_failed(rows, id, error_text) ==
    [rows EXCEPT ![id].status = "failed", ![id].last_error = error_text]

increment_attempt(rows, id, error_text) ==
    [rows EXCEPT ![id].attempts = @ + 1, ![id].last_error = error_text]

\* an UPDATE that stores the path and leaves the status column alone
set_src_path_only(rows, id) ==
    [rows EXCEPT ![id].src_path = "src", ![id].last_error = NULL]

set_task_downloaded(rows, id) ==
    [rows EXCEPT ![id].src_path = "src", ![id].status = "downloaded",
                 ![id].last_error = NULL]

\* a WHERE clause without its second alternative
PendingOnlyUndownloaded(row) ==
    row.status \in {"queued", "downloading"} /\ row.src_path = NULL

\* WHERE clause of get_pending_task_ids
Pending(row) ==
    \/ (row.status \in {"queued", "downloading"} /\ row.src_path = NULL)
    \/ (row.status \in {"downloaded", "preparing"} /\ row.src_path # NULL)

\* get_pending_task_ids: the ids of the pending rows, ORDER BY id
get_pending_task_ids(rows) ==
    SelectSeq([i \in 1..Len(rows) |-> i], LAMBDA i : Pending(rows[i]))

----------------------------------------------------------------------------
(* bot/services/queue.py *)

\* _SETTINGS.WORKER_CONCURRENCY, read by start_workers
WORKER_CONCURRENCY == 2

BotWorkers == 1..WORKER_CONCURRENCY

_RETRY_DELAYS == <<2, 5, 15>>

\* a table that starts over beyond its end
_next_delay_wraps(attempt_number) ==
    IF attempt_number <= 0 THEN _RETRY_DELAYS[1]
    ELSE IF attempt_number <= Len(_RETRY_DELAYS) THEN _RETRY_DELAYS[attempt_number]
    ELSE _RETRY_DELAYS[1]

\* Python indexes the table from 0, the sequence here starts at 1.
_next_delay(attempt_number) ==
    IF attempt_number <= 0 THEN _RETRY_DELAYS[1]
    ELSE IF attempt_number <= Len(_RETRY_DELAYS) THEN _RETRY_DELAYS[attempt_number]
    ELSE _RETRY_DELAYS[Len(_RETRY_DELAYS)]

\* a worker_loop waiting in _QUEUE.get(); task, attempts, resumed, dl and prep
\* describe its latest _process_task, dropped is the id it has last taken from
\* the queue and let go because the task was in _IN_PROGRESS
Waiting ==
    [pc |-> "idle", task |-> NoRow, attempts |-> 0, resumed |-> FALSE,
     dl |-> 0, prep |-> 0, dropped |-> NoRow]

\* the row is where a kill during the prepare stage leaves it
InPrepare(row) ==
    /\ row.status \in {"downloaded", "preparing"}
    /\ row.src_path # NULL
    /\ row.prepared_path = NULL

\* _handle_failure and _handle_notify_failure: increment_attempt; with the
\* retries used up set_task_failed and tell the user, else start a
\* delayed_reenqueue.  attempts is the value get_task read.
_handle_failure(rows, id, attempts, error_text) ==
    LET attempt_number == attempts + 1
        counted == increment_attempt(rows, id, error_text)
    IN  IF attempt_number >= max_retries
        THEN /\ tasks' = set_task_failed(counted, id, error_text)
             /\ timers' = timers
        ELSE /\ tasks' = counted
             /\ timers' = timers \cup {[task |-> id, delay |-> _next_delay(attempt_number)]}

\* a worker_loop that did not discard the id after _process_task
ReturnedKeeping(w, run) ==
    /\ bw' = [bw EXCEPT ![w] = [run EXCEPT !.pc = "idle"]]
    /\ in_progress' = in_progress

\* worker_loop's finally after _process_task has returned
Returned(w, run) ==
    /\ bw' = [bw EXCEPT ![w] = [run EXCEPT !.pc = "idle"]]
    /\ in_progress' = in_progress \ {run.task}

\* an exception leaves _process_task: worker_loop's finally runs and the
\* exception ends the worker_loop coroutine
Died(w, run) ==
    /\ bw' = [bw EXCEPT ![w] = [run EXCEPT !.pc = "dead"]]
    /\ in_progress' = in_progress \ {run.task}

\* _handle_failure and _handle_notify_failure tell the user with
\* _BOT.send_message when the retries are used up, and let its exception through
Tells(attempts) == attempts + 1 >= max_retries

\* _process_task after a _handle_failure or _handle_notify_failure that no
\* except clause encloses: it returns, or send_message has raised
AfterFailure(w, run) ==
    IF Tells(run.attempts) /\ send_raises
    THEN Returned(w, run) \/ Died(w, run)
    ELSE Returned(w, run)

\* _process_task goes on to an await
Awaiting(w, run, pc) ==
    /\ bw' = [bw EXCEPT ![w] = [run EXCEPT !.pc = pc]]
    /\ in_progress' = in_progress \cup {run.task}

\* _process_task, the prepare branch up to the await in _prepare_media:
\* set_task_preparing, then _prepare_media raises for a media type it does not
\* know or awaits prepare_to_story
StartPrepare(w, run, rows) ==
    LET id == run.task
        called == [run EXCEPT !.prep = @ + 1]
    IN  IF rows[id].media_type \in Supported
        THEN /\ tasks' = set_task_preparing(rows, id)
             /\ timers' = timers
             /\ Awaiting(w, called, "prepare")
        ELSE /\ _handle_failure(set_task_preparing(rows, id), id, run.attempts,
                                "Unsupported media_type")
             /\ AfterFailure(w, called)

\* the status of lines 178-183: a row with a source file is at least
\* downloaded, a row without one is at most queued
Normalised(row) ==
    IF row.src_path # NULL /\ row.status \in {"queued", "downloading"}
    THEN "downloaded"
    ELSE IF row.src_path = NULL /\ row.status \in {"downloaded", "preparing"}
    THEN "queued"
    ELSE row.status

\* _process_task from get_task to its first await or its return
ProcessTask(w, id) ==
    LET row == tasks[id]
        run == [Waiting EXCEPT !.task = id, !.attempts = row.attempts,
                               !.resumed = (id \in interrupted /\ InPrepare(row))]
        status == Normalised(row)
        rows == set_task_status(tasks, id, status)
    IN  IF row.media_type = "text" \/ row.status = "failed"
        THEN /\ UNCHANGED <<tasks, timers>>
             /\ Returned(w, run)
        ELSE IF row.status = "prepared" /\ row.prepared_path # NULL
        THEN /\ UNCHANGED <<tasks, timers>>
             /\ Awaiting(w, run, "notify")
        ELSE IF status \in {"queued", "downloading"} /\ row.src_path = NULL
        THEN IF row.file_id = NULL
             THEN /\ _handle_failure(set_task_status(rows, id, "downloading"), id,
                                     run.attempts, "missing file_id")
                  /\ AfterFailure(w, run)
             ELSE /\ tasks' = set_task_status(rows, id, "downloading")
                  /\ timers' = timers
                  /\ Awaiting(w, [run EXCEPT !.dl = @ + 1], "download")
        ELSE IF status \in {"downloaded", "preparing"} /\ row.src_path # NULL
        THEN StartPrepare(w, run, rows)
        ELSE /\ tasks' = rows
             /\ timers' = timers
             /\ Returned(w, run)

\* a worker_loop that did not look at _IN_PROGRESS
NeverInProgress(id) == FALSE

\* worker_loop: if task_id in _IN_PROGRESS
AlreadyInProgress(id) == id \in in_progress

\* worker_loop: task_id = await _QUEUE.get(); a task already in _IN_PROGRESS is
\* dropped, any other is handed to _process_task
Dequeue(w) ==
    /\ bot_up
    /\ bw[w].pc = "idle"
    /\ queue # <<>>
    /\ queue' = Tail(queue)
    /\ IF AlreadyInProgress(Head(queue))
       THEN /\ bw' = [bw EXCEPT ![w].dropped = Head(queue)]
            /\ UNCHANGED <<tasks, timers, in_progress>>
       ELSE ProcessTask(w, Head(queue))
    /\ UNCHANGED <<bot_up, max_retries, send_raises, bot_crashes, interrupted, delayed>>
    /\ UNCHANGED notBot

\* _download_file returns or raises: set_task_downloaded and on to the prepare
\* branch, or _handle_failure
DownloadDone(w) ==
    /\ bw[w].pc = "download"
    /\ \E outcome \in {"ok", "error"} :
         IF outcome = "ok"
         THEN StartPrepare(w, bw[w], set_task_downloaded(tasks, bw[w].task))
         ELSE /\ _handle_failure(tasks, bw[w].task, bw[w].attempts, "download error")
              /\ AfterFailure(w, bw[w])
    /\ UNCHANGED <<queue, bot_up, max_retries, send_raises, bot_crashes, interrupted, delayed>>
    /\ UNCHANGED notBot

\* prepare_to_story returns or raises: set_task_prepared and on to
\* _notify_prepared_media, or _handle_failure
PrepareDone(w) ==
    /\ bw[w].pc = "prepare"
    /\ \E outcome \in {"ok", "error"} :
         IF outcome = "ok"
         THEN /\ tasks' = set_task_prepared(tasks, bw[w].task)
              /\ timers' = timers
              /\ Awaiting(w, bw[w], "notify")
         ELSE /\ _handle_failure(tasks, bw[w].task, bw[w].attempts, "prepare error")
              /\ AfterFailure(w, bw[w])
    /\ UNCHANGED <<queue, bot_up, max_retries, send_raises, bot_crashes, interrupted, delayed>>
    /\ UNCHANGED notBot

\* _handle_notify_failure.  In the branch of a task found 'prepared' no except
\* clause encloses it.  In the prepare branch (this _process_task has called
\* _prepare_media) the outer except clause catches what send_message raises
\* and calls _handle_failure with the attempts get_task read.
NotifyFailed(w) ==
    LET run == bw[w]
        id == run.task
        told == set_task_failed(increment_attempt(tasks, id, "notify failed"), id,
                                "notify failed")
    IN  \/ /\ _handle_failure(tasks, id, run.attempts, "notify failed")
           /\ Returned(w, run)
        \/ /\ Tells(run.attempts) /\ send_raises
           /\ IF run.prep > 0
              THEN /\ _handle_failure(told, id, run.attempts, "prepare error")
                   /\ AfterFailure(w, run)
              ELSE /\ _handle_failure(tasks, id, run.attempts, "notify failed")
                   /\ Died(w, run)

\* _notify_prepared_media and _run_ocr_if_needed return or raise: done, or
\* _handle_notify_failure
NotifyDone(w) ==
    /\ bw[w].pc = "notify"
    /\ \E outcome \in {"ok", "error"} :
         IF outcome = "ok"
         THEN /\ UNCHANGED <<tasks, timers>>
              /\ Returned(w, bw[w])
         ELSE NotifyFailed(w)
    /\ UNCHANGED <<queue, bot_up, max_retries, send_raises, bot_crashes, interrupted, delayed>>
    /\ UNCHANGED notBot

\* delayed_reenqueue: the sleep is over, enqueue_task
delayed_reenqueue(timer) ==
    /\ bot_up
    /\ timer \in timers
    /\ timers' = timers \ {timer}
    /\ queue' = Append(queue, timer.task)
    /\ UNCHANGED <<tasks, in_progress, bw, bot_up, max_retries, send_raises, bot_crashes, interrupted, delayed>>
    /\ UNCHANGED notBot

\* enqueue_task called with the id of a stored task, whoever calls it
enqueue_task(id) ==
    /\ bot_up
    /\ id \in TaskIds
    /\ Len(queue) < MaxQueue
    /\ queue' = Append(queue, id)
    /\ UNCHANGED <<tasks, in_progress, bw, timers, bot_up, max_retries, send_raises, bot_crashes, interrupted, delayed>>
    /\ UNCHANGED notBot

\* requeue_pending_tasks: enqueue_task for each id of get_pending_task_ids
requeue_pending_tasks(rows) == get_pending_task_ids(rows)

----------------------------------------------------------------------------
(* bot/handlers/inbox.py, bot/main.py and the bot's process lifetime *)

\* _handle_media_message: create_task with status 'queued', enqueue_task.  The
\* handlers pass a file_id and 'photo' or 'video'; create_task itself takes any
\* media_type and a file_id that may be None, and _process_task deals with both.
CreateTask(media_type, file_id) ==
    /\ bot_up
    /\ Len(tasks) < MaxTasks
    /\ tasks' = Append(tasks, [NewTask(media_type, file_id, "queued")
                                  EXCEPT !.tg_message_id = Len(tasks) + 1])
    /\ queue' = Append(queue, Len(tasks) + 1)
    /\ UNCHANGED <<in_progress, bw, timers, bot_up, max_retries, send_raises, bot_crashes, interrupted, delayed>>
    /\ UNCHANGED notBot

\* _handle_media_message for a whitelisted photo message of an accepted size:
\* create_task with status 'queued', enqueue_task.  Telegram may deliver a
\* message again.
_handle_media_message(message) ==
    /\ bot_up
    /\ Len(tasks) < MaxTasks
    /\ tasks' = Append(tasks, [NewTask("photo", "file", "queued")
                                  EXCEPT !.tg_message_id = message])
    /\ queue' = Append(queue, Len(tasks) + 1)
    /\ UNCHANGED <<in_progress, bw, timers, bot_up, max_retries, send_raises, bot_crashes, interrupted, delayed>>
    /\ UNCHANGED notBot

\* main(): init_db, init_queue, start_workers, requeue_pending_tasks
BotStart ==
    /\ ~bot_up
    /\ bot_up' = TRUE
    /\ queue' = requeue_pending_tasks(tasks)
    /\ UNCHANGED <<tasks, in_progress, bw, timers, max_retries, send_raises, bot_crashes, interrupted, delayed>>
    /\ UNCHANGED notBot

\* the tasks whose _process_task is awaiting prepare_to_story
Preparing == {bw[w].task : w \in {v \in BotWorkers : bw[v].pc = "prepare"}}

\* what a kill leaves of the process: the table
Killed ==
    /\ bot_up
    /\ bot_crashes < MaxBotCrashes
    /\ bot_crashes' = bot_crashes + 1
    /\ bot_up' = FALSE
    /\ queue' = <<>>
    /\ in_progress' = {}
    /\ timers' = {}
    /\ bw' = [w \in BotWorkers |-> Waiting]
    /\ delayed' = {timer.task : timer \in timers}

\* The process is killed while its coroutines are waiting.
BotCrash ==
    /\ Killed
    /\ interrupted' = interrupted \cup Preparing
    /\ UNCHANGED <<tasks, max_retries, send_raises>>
    /\ UNCHANGED notBot

\* The process is killed after line 198 (set_task_downloaded) and before
\* line 215 (set_task_preparing) of a _process_task.
BotCrashDownloaded(w) ==
    /\ bw[w].pc = "download"
    /\ Killed
    /\ tasks' = set_task_downloaded(tasks, bw[w].task)
    /\ interrupted' = interrupted \cup Preparing \cup {bw[w].task}
    /\ UNCHANGED <<max_retries, send_raises>>
    /\ UNCHANGED notBot

----------------------------------------------------------------------------
(* bot/db.py: deliveries *)

DeliveryIds == 1..Len(deliveries)

\* targets a delivery may be enqueued for; the publisher serves "tg_story"
Targets == {"tg_story", "wa_status"}

\* enqueue_delivery: the row of the INSERT
NewDelivery(id, task_id, target) ==
    [id |-> id, task_id |-> task_id, target |-> target, status |-> "queued",
     external_id |-> NULL, error |-> NULL]

\* a table without the unique index
NoUniqueIndex(rows, target, task_id) == FALSE

\* the unique index deliveries_target_task_unique on deliveries(target, task_id)
Conflict(rows, target, task_id) ==
    \E i \in 1..Len(rows) : rows[i].target = target /\ rows[i].task_id = task_id

\* enqueue_delivery: INSERT ... ON CONFLICT(target, task_id) DO NOTHING
enqueue_delivery(task_id, target) ==
    /\ IF Conflict(deliveries, target, task_id)
       THEN UNCHANGED <<deliveries, stories>>
       ELSE /\ Len(deliveries) < MaxDeliveries
            /\ deliveries' = Append(deliveries,
                                    NewDelivery(Len(deliveries) + 1, task_id, target))
            /\ stories' = Append(stories, 0)
    /\ UNCHANGED <<pub, pub_crashes>>
    /\ UNCHANGED notPub

----------------------------------------------------------------------------
(* publisher/db.py, publisher/main.py *)

\* settings.max_per_batch
max_per_batch == 3

\* the publisher is not running
PubOff == [pc |-> "off", batch |-> <<>>]

\* Database.mark_failed
pub_mark_failed(rows, delivery_id, error) ==
    [rows EXCEPT ![delivery_id].status = "failed", ![delivery_id].error = error]

\* Database.mark_posted
pub_mark_posted(rows, delivery_id) ==
    [rows EXCEPT ![delivery_id].status = "posted",
                 ![delivery_id].external_id = "story",
                 ![delivery_id].error = NULL]

\* WHERE and JOIN of fetch_queued
Queued(row) ==
    /\ row.target = "tg_story"
    /\ row.status = "queued"
    /\ row.task_id \in TaskIds

\* the first n elements of a sequence
Limit(seq, n) == IF Len(seq) <= n THEN seq ELSE SubSeq(seq, 1, n)

\* Database.fetch_queued: the queued deliveries ORDER BY d.id LIMIT ?, each with
\* the prepared_path and media_type of its task
fetch_queued(limit) ==
    LET ids == SelectSeq([i \in 1..Len(deliveries) |-> i],
                         LAMBDA i : Queued(deliveries[i]))
        found == Limit(ids, limit)
    IN  [k \in 1..Len(found) |->
            [delivery_id |-> found[k],
             task_id |-> deliveries[found[k]].task_id,
             prepared_path |-> tasks[deliveries[found[k]].task_id].prepared_path,
             media_type |-> tasks[deliveries[found[k]].task_id].media_type]]

\* run_loop: Database, PublisherClient, ensure_indexes
PubStart ==
    /\ pub.pc = "off"
    /\ pub' = [pc |-> "poll", batch |-> <<>>]
    /\ UNCHANGED <<deliveries, stories, pub_crashes>>
    /\ UNCHANGED notPub

\* run_once: fetch_queued; nothing to do -> sleep and poll again
RunOnce ==
    /\ pub.pc = "poll"
    /\ LET batch == fetch_queued(max_per_batch) IN
       pub' = [pc |-> IF batch = <<>> THEN "poll" ELSE "check", batch |-> batch]
    /\ UNCHANGED <<deliveries, stories, pub_crashes>>
    /\ UNCHANGED notPub

\* process_delivery has returned: the next delivery of the batch, or the sleep
NextDelivery ==
    [pc |-> IF Tail(pub.batch) = <<>> THEN "poll" ELSE "check",
     batch |-> Tail(pub.batch)]

\* process_delivery up to send_story: no prepared_path -> mark_failed;
\* can_send_story false -> mark_failed; can_send_story raising ends run_loop
CanSend ==
    /\ pub.pc = "check"
    /\ LET delivery == Head(pub.batch) IN
       IF delivery.prepared_path = NULL
       THEN /\ deliveries' = pub_mark_failed(deliveries, delivery.delivery_id,
                                             "prepared_path is empty")
            /\ pub' = NextDelivery
       ELSE \E outcome \in {"yes", "no", "raise"} :
              /\ deliveries' = IF outcome = "no"
                               THEN pub_mark_failed(deliveries, delivery.delivery_id,
                                                    "cannot send story for peer")
                               ELSE deliveries
              /\ pub' = IF outcome = "yes" THEN [pub EXCEPT !.pc = "send"]
                        ELSE IF outcome = "no" THEN NextDelivery
                        ELSE PubOff
    /\ UNCHANGED <<stories, pub_crashes>>
    /\ UNCHANGED notPub

\* send_story returns the story's id, or raises and the delivery is failed
SendStory ==
    /\ pub.pc = "send"
    /\ LET delivery == Head(pub.batch) IN
       \E outcome \in {"ok", "error"} :
         IF outcome = "ok"
         THEN /\ stories' = [stories EXCEPT ![delivery.delivery_id] = @ + 1]
              /\ pub' = [pub EXCEPT !.pc = "persist"]
              /\ deliveries' = deliveries
         ELSE /\ deliveries' = pub_mark_failed(deliveries, delivery.delivery_id,
                                               "story publish failed")
              /\ pub' = NextDelivery
              /\ stories' = stories
    /\ UNCHANGED pub_crashes
    /\ UNCHANGED notPub

\* process_delivery: mark_posted
MarkPosted ==
    /\ pub.pc = "persist"
    /\ deliveries' = pub_mark_posted(deliveries, Head(pub.batch).delivery_id)
    /\ pub' = NextDelivery
    /\ UNCHANGED <<stories, pub_crashes>>
    /\ UNCHANGED notPub

\* run_loop of the second process: Database, PublisherClient, ensure_indexes
RivalStart ==
    /\ rival.pc = "off"
    /\ rival' = [pc |-> "poll", batch |-> <<>>]
    /\ UNCHANGED <<deliveries, stories>>
    /\ UNCHANGED notRival

\* run_once of the second process: fetch_queued
RivalRunOnce ==
    /\ rival.pc = "poll"
    /\ LET batch == fetch_queued(max_per_batch) IN
       rival' = [pc |-> IF batch = <<>> THEN "poll" ELSE "check", batch |-> batch]
    /\ UNCHANGED <<deliveries, stories>>
    /\ UNCHANGED notRival

\* process_delivery of the second process has returned
RivalNextDelivery ==
    [pc |-> IF Tail(rival.batch) = <<>> THEN "poll" ELSE "check",
     batch |-> Tail(rival.batch)]

\* process_delivery of the second process up to send_story
RivalCanSend ==
    /\ rival.pc = "check"
    /\ LET delivery == Head(rival.batch) IN
       IF delivery.prepared_path = NULL
       THEN /\ deliveries' = pub_mark_failed(deliveries, delivery.delivery_id,
                                             "prepared_path is empty")
            /\ rival' = RivalNextDelivery
       ELSE \E outcome \in {"yes", "no", "raise"} :
              /\ deliveries' = IF outcome = "no"
                               THEN pub_mark_failed(deliveries, delivery.delivery_id,
                                                    "cannot send story for peer")
                               ELSE deliveries
              /\ rival' = IF outcome = "yes" THEN [rival EXCEPT !.pc = "send"]
                          ELSE IF outcome = "no" THEN RivalNextDelivery
                          ELSE PubOff
    /\ UNCHANGED stories
    /\ UNCHANGED notRival

\* send_story of the second process returns the story's id, or raises
RivalSendStory ==
    /\ rival.pc = "send"
    /\ LET delivery == Head(rival.batch) IN
       \E outcome \in {"ok", "error"} :
         IF outcome = "ok"
         THEN /\ stories' = [stories EXCEPT ![delivery.delivery_id] = @ + 1]
              /\ rival' = [rival EXCEPT !.pc = "persist"]
              /\ deliveries' = deliveries
         ELSE /\ deliveries' = pub_mark_failed(deliveries, delivery.delivery_id,
                                               "story publish failed")
              /\ rival' = RivalNextDelivery
              /\ stories' = stories
    /\ UNCHANGED notRival

\* process_delivery of the second process: mark_posted
RivalMarkPosted ==
    /\ rival.pc = "persist"
    /\ deliveries' = pub_mark_posted(deliveries, Head(rival.batch).delivery_id)
    /\ rival' = RivalNextDelivery
    /\ UNCHANGED stories
    /\ UNCHANGED notRival

\* The publisher process is killed.
PubCrash ==
    /\ pub.pc # "off"
    /\ pub_crashes < MaxPubCrashes
    /\ pub_crashes' = pub_crashes + 1
    /\ pub' = PubOff
    /\ UNCHANGED <<deliveries, stories>>
    /\ UNCHANGED notPub

----------------------------------------------------------------------------
(* app/webhook.py, app/selfcheck.py *)

\* A payload with one message.  A key that the message does not carry is NULL;
\* media, image and video are dicts that carry an "id" or a "url".
Messages ==
    [from_me : {NULL, "true", "false"},
     from : {NULL, "me", "someone"},
     type : {NULL, "status", "story", "image", "video", "text"},
     chat_type : {NULL, "status"},
     media_type : {NULL, "image"},
     media : {NULL, "id", "url"},
     image : {NULL, "id"},
     video : {NULL, "id"},
     is_status : BOOLEAN,
     id : StatusIds]

\* no payload has been received
NoHook == [pc |-> "none", event_id |-> NULL, message |-> NULL, events |-> <<>>]

\* _is_from_me
_is_from_me(message) ==
    IF message.from_me # NULL THEN message.from_me = "true"
    ELSE message.from = "me"

\* an _is_status that takes every message for a status
_is_status_any(message) == TRUE

\* _is_status
_is_status(message) ==
    \/ message.type \in {"status", "story"}
    \/ message.chat_type \in {"status", "story"}
    \/ message.is_status

\* Python's a or b on keys that are NULL when absent
Or(a, b) == IF a # NULL THEN a ELSE b

\* _extract_media: what the media id and url are read from ("id", "url" or
\* NULL), and the media type
_extract_media(message) ==
    LET media == IF message.media # NULL THEN message.media
                 ELSE IF message.image # NULL THEN message.image
                 ELSE message.video
        named == IF message.video # NULL THEN "video"
                 ELSE IF message.image # NULL THEN "photo"
                 ELSE Or(Or(message.type, message.media_type), "unknown")
    IN  [media |-> media,
         media_type |-> IF named \in {"image", "photo"} THEN "photo"
                        ELSE IF named \in {"video", "video/mp4"} THEN "video"
                        ELSE "unknown"]

\* extract_status_events for a payload with one message
extract_status_events(event_id, message) ==
    LET extracted == _extract_media(message)
    IN  IF ~_is_from_me(message) THEN <<>>
        ELSE IF ~_is_status(message) THEN <<>>
        ELSE IF extracted.media_type = "unknown" THEN <<>>
        ELSE IF extracted.media = NULL THEN <<>>
        ELSE <<[whapi_event_id |-> event_id,
                source_status_id |-> message.id,
                media_type |-> extracted.media_type,
                media_remote_id |-> IF extracted.media = "id" THEN "id" ELSE NULL,
                media_url |-> IF extracted.media = "url" THEN "url" ELSE NULL]>>

\* selfcheck run / whapi_webhook: events = extract_status_events(payload)
ExtractStatusEvents ==
    /\ hook.pc = "received"
    /\ hook' = [hook EXCEPT !.pc = "extracted",
                            !.events = extract_status_events(hook.event_id, hook.message)]
    /\ UNCHANGED <<appVars, botVars, pubVars, probe>>

\* selfcheck run / whapi_webhook: insert_event of the extracted event; the
\* payload hash of the one message is 1
InsertExtracted ==
    /\ hook.pc = "extracted"
    /\ hook.events # <<>>
    /\ InsertEvent(hook.events[1].whapi_event_id, hook.events[1].source_status_id, 1)

\* settings.webhook_secret
webhook_secret == "secret"

\* X-Whapi-Signature: absent, or the hex digest of the body's HMAC under the
\* configured secret ("good") or under another key ("bad"), bare or prefixed
Signatures == {NULL, "good", "sha256=good", "bad", "sha256=bad"}

\* X-Webhook-Secret or ?secret=: absent, the configured secret or another one
ProvidedSecrets == {NULL, "secret", "other"}

\* provided.split("=", 1)[1] for a header that starts with "sha256="
StripPrefix(signature_header) ==
    IF signature_header = "sha256=good" THEN "good"
    ELSE IF signature_header = "sha256=bad" THEN "bad"
    ELSE signature_header

\* a verify_webhook that accepts either credential
verify_either(signature_header, provided_secret) ==
    \/ StripPrefix(signature_header) = "good"
    \/ provided_secret = webhook_secret

\* verify_webhook: with a signature header the digest decides, without one
\* the provided secret
verify_webhook(signature_header, provided_secret) ==
    IF signature_header # NULL
    THEN StripPrefix(signature_header) = "good"
    ELSE provided_secret = webhook_secret

\* whapi_webhook: verify_webhook fails -> HTTPException 401
VerifyWebhook ==
    /\ hook.pc = "arrived"
    /\ hook' = [hook EXCEPT !.pc = IF verify_webhook(hook.signature, hook.provided_secret)
                                   THEN "received" ELSE "rejected"]
    /\ UNCHANGED <<appVars, botVars, pubVars, probe>>

\* The messages of a payload with several: the k-th message has id k and
\* payload hash k, is from_me, and is or is not marked as a status and does or
\* does not carry an image, a video or a media url.
PayloadMessages(k) ==
    {message \in [from_me : {"true"}, from : {NULL},
                  type : {"status", "image"}, chat_type : {NULL, "status"},
                  media_type : {NULL}, media : {NULL, "url"},
                  image : {NULL, "id"}, video : {NULL, "id"},
                  is_status : {FALSE}, id : {ToString(k)}] : TRUE}

\* the payloads "messages": [...] with 1..MaxPayload messages
Payloads ==
    UNION {{messages \in [1..n -> UNION {PayloadMessages(k) : k \in 1..n}] :
               \A k \in 1..n : messages[k] \in PayloadMessages(k)} : n \in 1..MaxPayload}

\* extract_status_events: the loop over _as_list(payload); the event of the
\* k-th message keeps the payload's event_id and gets payload hash k
RECURSIVE extract_from(_, _, _)
extract_from(event_id, messages, k) ==
    IF k > Len(messages) THEN <<>>
    ELSE LET found == extract_status_events(event_id, messages[k])
         IN  (IF found = <<>> THEN <<>>
              ELSE <<[whapi_event_id |-> found[1].whapi_event_id,
                      source_status_id |-> found[1].source_status_id,
                      media_type |-> found[1].media_type,
                      media_remote_id |-> found[1].media_remote_id,
                      media_url |-> found[1].media_url,
                      payload_hash |-> k]>>)
             \o extract_from(event_id, messages, k + 1)

\* whapi_webhook: events = extract_status_events(payload); no event ->
\* {"status": "ignored"}
ExtractPayload ==
    /\ hook.pc = "received"
    /\ LET found == extract_from(hook.event_id, hook.messages, 1) IN
       hook' = [hook EXCEPT !.pc = IF found = <<>> THEN "ignored" ELSE "inserting",
                            !.events = found]
    /\ UNCHANGED <<appVars, botVars, pubVars, probe>>

\* whapi_webhook, one turn of the loop: insert_event of the next event (INSERT
\* OR IGNORE, commit) and inserted += 1 if it returned a row id
InsertEach ==
    /\ hook.pc = "inserting"
    /\ hook.events # <<>>
    /\ db_lock = NoLock
    /\ LET event == Head(hook.events) IN
       IF UniqueViolation(events, event.whapi_event_id, event.source_status_id,
                          event.payload_hash)
       THEN /\ events' = events
            /\ insert_ret' = NoRow
            /\ hist' = hist
            /\ hook' = [hook EXCEPT !.events = Tail(@)]
       ELSE /\ Len(events) < MaxEvents
            /\ events' = Append(events, NewRow(Len(events) + 1, event.whapi_event_id,
                                               event.source_status_id,
                                               event.payload_hash, clock))
            /\ insert_ret' = Len(events) + 1
            /\ hist' = Append(hist, [claims |-> 0, rejected |-> FALSE, by |-> NoLock])
            /\ hook' = [hook EXCEPT !.events = Tail(@), !.inserted = @ + 1]
    /\ UNCHANGED <<db_lock, wk, clock, max_attempts, stop_call, crashes>>
    /\ UNCHANGED <<botVars, pubVars, probe>>

\* whapi_webhook: return {"status": "accepted", "inserted": inserted}
Respond ==
    /\ hook.pc = "inserting"
    /\ hook.events = <<>>
    /\ hook' = [hook EXCEPT !.pc = "accepted"]
    /\ UNCHANGED <<appVars, botVars, pubVars, probe>>

----------------------------------------------------------------------------
(* The retry policies as functions *)

\* the retry policy has not been called
NoProbe == [attempt |-> 0, now |-> 0, called |-> {}, next_attempt |-> NoTime, delay |-> 0]

\* times at which _next_attempt is called
ProbeTimes == {t \in 0..MaxClock : t % TickStep = 0}

\* app/processor.py: next_attempt = _next_attempt(attempts, utc_now())
CallNextAttempt ==
    /\ "_next_attempt" \notin probe.called
    /\ probe' = [probe EXCEPT !.called = @ \cup {"_next_attempt"},
                              !.next_attempt = _next_attempt(probe.attempt, probe.now)]
    /\ UNCHANGED <<appVars, botVars, pubVars, hook>>

\* bot/services/queue.py: delay = _next_delay(attempt_number)
CallNextDelay ==
    /\ "_next_delay" \notin probe.called
    /\ probe' = [probe EXCEPT !.called = @ \cup {"_next_delay"},
                              !.delay = _next_delay(probe.attempt)]
    /\ UNCHANGED <<appVars, botVars, pubVars, hook>>

----------------------------------------------------------------------------
(* Specifications *)

AppInit ==
    /\ events = <<>>
    /\ db_lock = NoLock
    /\ wk = [w \in Workers |-> Idle("off")]
    /\ clock = 0
    /\ insert_ret = NoRow
    /\ crashes = 0
    /\ hist = <<>>
    /\ stop_call = [w \in Workers |-> NotStopped]

BotInit ==
    /\ tasks = <<>>
    /\ queue = <<>>
    /\ in_progress = {}
    /\ bw = [w \in BotWorkers |-> Waiting]
    /\ timers = {}
    /\ bot_up = FALSE
    /\ bot_crashes = 0
    /\ interrupted = {}
    /\ delayed = {}

PubInit ==
    /\ deliveries = <<>>
    /\ pub = PubOff
    /\ rival = PubOff
    /\ stories = <<>>
    /\ pub_crashes = 0

\* app alone: the bot is not started and the retry policy is not probed
Init ==
    /\ AppInit
    /\ max_attempts \in 1..MaxAttemptsCfg
    /\ BotInit
    /\ max_retries = 1
    /\ send_raises = FALSE
    /\ PubInit
    /\ hook = NoHook
    /\ probe = NoProbe

WorkerStep(w) ==
    \/ FetchBegin(w)
    \/ FetchSelect(w)
    \/ FetchUpdate(w)
    \/ DownloadPrepare(w)
    \/ Publish(w)

\* The pipeline: messages are told apart by their payload hash alone.
Next ==
    \/ \E h \in Hashes : InsertEvent(NULL, NULL, h)
    \/ \E w \in Workers : WorkerStep(w)
    \/ \E w \in Workers : Start(w)
    \/ \E w \in Workers : Crash(w)
    \/ Tick

Spec == Init /\ [][Next]_vars

\* The pipeline with the transform as a step of its own, and the webhook
\* handler on the event loop of the web process.
LoopStep(w) ==
    \/ FetchBegin(w)
    \/ FetchSelect(w)
    \/ FetchUpdate(w)
    \/ Download(w)
    \/ Transform(w)
    \/ Publish(w)

NextLoop ==
    \/ \E h \in Hashes : WebhookInsert(NULL, NULL, h)
    \/ \E w \in Workers : LoopStep(w)
    \/ \E w \in Workers : Start(w)
    \/ Tick

SpecLoop == Init /\ [][NextLoop]_vars

\* The pipeline with graceful shutdown in place of kills: the lifespan of the
\* web process stops its worker, the standalone worker runs on.
NextStop ==
    \/ \E h \in Hashes : InsertEvent(NULL, NULL, h)
    \/ \E w \in Workers : WorkerStep(w)
    \/ \E w \in Workers : Start(w)
    \/ stop("web")
    \/ RunEnds("web")
    \/ StopEnds("web")
    \/ Tick

SpecStop == Init /\ [][NextStop]_vars

\* Ingestion: messages with every combination of correlation keys, one worker.
NextIngest ==
    \/ \E w \in WhapiIds, s \in StatusIds, h \in Hashes : InsertEvent(w, s, h)
    \/ WorkerStep("web")
    \/ Start("web")

SpecIngest == Init /\ [][NextIngest]_vars

\* Worker.run is resumed whenever it can take a step, a killed process is
\* started again, and time passes.
SpecFair ==
    /\ Spec
    /\ \A w \in Workers : WF_vars(WorkerStep(w)) /\ WF_vars(Start(w))
    /\ WF_vars(Tick)

\* the last time the model's clock reaches when retries are waited for
Horizon == MaxClock + backoff[1]

\* time passes up to Horizon
TickOn ==
    /\ clock + TickStep <= Horizon
    /\ clock' = clock + TickStep
    /\ UNCHANGED <<events, db_lock, wk, max_attempts, stop_call, insert_ret, crashes, hist>>
    /\ UNCHANGED notApp

\* every collaborator failure is a WhapiError, CalledProcessError or OSError:
\* process_event returns and Worker.run goes on
Caught(w) == wk'[w].pc # "dead"

\* a retry is due within the time the model's clock reaches
RetryInHorizon ==
    \A e \in 1..Len(events') :
        (events'[e].state = "failed" /\ events'[e].attempts < max_attempts)
            => events'[e].next_attempt_at <= Horizon

LiveStep(w) ==
    /\ WorkerStep(w)
    /\ Caught(w)
    /\ RetryInHorizon

NextLive ==
    \/ \E h \in Hashes : InsertEvent(NULL, NULL, h)
    \/ LiveStep("web")
    \/ Start("web")
    \/ TickOn

\* The web process alone, never killed: it is started, time passes, and
\* Worker.run is resumed whenever it can take a step.
SpecLive ==
    /\ Init
    /\ [][NextLive]_vars
    /\ WF_vars(LiveStep("web"))
    /\ WF_vars(Start("web"))
    /\ WF_vars(TickOn)

\* bot alone
InitBot ==
    /\ AppInit
    /\ max_attempts = 1
    /\ BotInit
    /\ max_retries \in 1..MaxRetriesCfg
    /\ send_raises = FALSE
    /\ PubInit
    /\ hook = NoHook
    /\ probe = NoProbe

NextBot ==
    \/ BotStart
    \/ \E media_type \in MediaTypes, file_id \in FileIds : CreateTask(media_type, file_id)
    \/ \E w \in BotWorkers : Dequeue(w)
    \/ \E w \in BotWorkers : DownloadDone(w)
    \/ \E w \in BotWorkers : PrepareDone(w)
    \/ \E w \in BotWorkers : NotifyDone(w)
    \/ \E timer \in timers : delayed_reenqueue(timer)
    \/ BotCrash
    \/ \E w \in BotWorkers : BotCrashDownloaded(w)

SpecBot == InitBot /\ [][NextBot]_vars

\* bot while Telegram may refuse a send_message
InitSend ==
    /\ AppInit
    /\ max_attempts = 1
    /\ BotInit
    /\ max_retries \in 1..MaxRetriesCfg
    /\ send_raises = TRUE
    /\ PubInit
    /\ hook = NoHook
    /\ probe = NoProbe

SpecSend == InitSend /\ [][NextBot]_vars

\* bot with photo tasks as the inbox handlers create them, and with enqueue_task also
\* called for tasks that are already submitted
NextEnqueue ==
    \/ BotStart
    \/ CreateTask("photo", "file")
    \/ \E id \in 1..MaxTasks : enqueue_task(id)
    \/ \E w \in BotWorkers : Dequeue(w)
    \/ \E w \in BotWorkers : DownloadDone(w)
    \/ \E w \in BotWorkers : PrepareDone(w)
    \/ \E w \in BotWorkers : NotifyDone(w)
    \/ \E timer \in timers : delayed_reenqueue(timer)
    \/ BotCrash

\* the same with a _BOT.send_message that may raise
SpecEnqueueSend == InitSend /\ [][NextEnqueue]_vars

SpecEnqueue == InitBot /\ [][NextEnqueue]_vars

\* app and bot are two programs that share no state: either runs while the
\* other has not been started
AppIdle ==
    /\ events = <<>>
    /\ \A w \in Workers : wk[w].pc = "off"
    /\ clock = 0
    /\ crashes = 0

BotIdle ==
    /\ ~bot_up
    /\ tasks = <<>>
    /\ bot_crashes = 0

InitBoth ==
    /\ AppInit
    /\ BotInit
    /\ \/ max_attempts \in 1..MaxAttemptsCfg /\ max_retries = 1
       \/ max_attempts = 1 /\ max_retries \in 1..MaxRetriesCfg
    /\ send_raises = FALSE
    /\ PubInit
    /\ hook = NoHook
    /\ probe = NoProbe

NextBoth ==
    \/ BotIdle /\ \E h \in Hashes : InsertEvent(NULL, NULL, h)
    \/ BotIdle /\ \E w \in Workers : WorkerStep(w)
    \/ BotIdle /\ \E w \in Workers : Start(w)
    \/ BotIdle /\ \E w \in Workers : Crash(w)
    \/ BotIdle /\ Tick
    \/ AppIdle /\ BotStart
    \/ AppIdle /\ CreateTask("photo", "file")
    \/ AppIdle /\ \E id \in 1..MaxTasks : enqueue_task(id)
    \/ AppIdle /\ \E w \in BotWorkers : Dequeue(w)
    \/ AppIdle /\ \E w \in BotWorkers : DownloadDone(w)
    \/ AppIdle /\ \E w \in BotWorkers : PrepareDone(w)
    \/ AppIdle /\ \E w \in BotWorkers : NotifyDone(w)
    \/ AppIdle /\ \E timer \in timers : delayed_reenqueue(timer)
    \/ AppIdle /\ BotCrash

SpecBoth == InitBoth /\ [][NextBoth]_vars

\* bot with messages that may be delivered more than once
NextInbox ==
    \/ BotStart
    \/ \E message \in 1..MaxMessages : _handle_media_message(message)
    \/ \E w \in BotWorkers : Dequeue(w)
    \/ \E w \in BotWorkers : DownloadDone(w)
    \/ \E w \in BotWorkers : PrepareDone(w)
    \/ \E w \in BotWorkers : NotifyDone(w)
    \/ \E timer \in timers : delayed_reenqueue(timer)
    \/ BotCrash

SpecInbox == InitBot /\ [][NextInbox]_vars

\* a task the bot has prepared
PreparedTask ==
    [NewTask("photo", "file", "queued") EXCEPT !.src_path = "src",
                                               !.prepared_path = "prepared",
                                               !.status = "prepared"]

\* publisher alone, on a tasks table the bot has left: every task either
\* prepared or still queued
InitPub ==
    /\ AppInit
    /\ max_attempts = 1
    /\ tasks \in [1..MaxTasks -> {PreparedTask, NewTask("photo", "file", "queued")}]
    /\ queue = <<>>
    /\ in_progress = {}
    /\ bw = [w \in BotWorkers |-> Waiting]
    /\ timers = {}
    /\ bot_up = FALSE
    /\ bot_crashes = 0
    /\ interrupted = {}
    /\ delayed = {}
    /\ max_retries = 1
    /\ send_raises = FALSE
    /\ PubInit
    /\ hook = NoHook
    /\ probe = NoProbe

NextPub ==
    \/ \E task_id \in 1..MaxTasks, target \in Targets : enqueue_delivery(task_id, target)
    \/ PubStart
    \/ RunOnce
    \/ CanSend
    \/ SendStory
    \/ MarkPosted
    \/ PubCrash

SpecPub == InitPub /\ [][NextPub]_vars

\* Two publisher processes on one store, neither of them killed.
NextRival ==
    \/ \E task_id \in 1..MaxTasks, target \in Targets : enqueue_delivery(task_id, target)
    \/ PubStart
    \/ RunOnce
    \/ CanSend
    \/ SendStory
    \/ MarkPosted
    \/ RivalStart
    \/ RivalRunOnce
    \/ RivalCanSend
    \/ RivalSendStory
    \/ RivalMarkPosted

SpecRival == InitPub /\ [][NextRival]_vars

\* The publisher is started when it is not running, and run_loop is resumed
\* whenever it can take a step.
SpecPubFair ==
    /\ SpecPub
    /\ WF_vars(PubStart)
    /\ WF_vars(RunOnce)
    /\ WF_vars(CanSend)
    /\ WF_vars(SendStory)
    /\ WF_vars(MarkPosted)

\* the webhook alone: one payload with one message
InitWebhook ==
    /\ AppInit
    /\ max_attempts = 1
    /\ BotInit
    /\ max_retries = 1
    /\ send_raises = FALSE
    /\ PubInit
    /\ \E event_id \in WhapiIds, message \in Messages :
         hook = [NoHook EXCEPT !.pc = "received", !.event_id = event_id,
                               !.message = message]
    /\ probe = NoProbe

NextWebhook ==
    \/ ExtractStatusEvents
    \/ InsertExtracted

SpecWebhook == InitWebhook /\ [][NextWebhook]_vars

\* the retry policies alone: one call of each with an attempt number and a time
\* One webhook request with a payload of several messages, on an empty store.
InitPayload ==
    /\ AppInit
    /\ max_attempts = 1
    /\ BotInit
    /\ max_retries = 1
    /\ send_raises = FALSE
    /\ PubInit
    /\ \E event_id \in WhapiIds, messages \in Payloads,
          signature \in Signatures, provided_secret \in ProvidedSecrets :
         hook = [pc |-> "arrived", signature |-> signature,
                 provided_secret |-> provided_secret,
                 event_id |-> event_id, message |-> NULL,
                 messages |-> messages, events |-> <<>>, inserted |-> 0]
    /\ probe = NoProbe

NextPayload ==
    \/ VerifyWebhook
    \/ ExtractPayload
    \/ InsertEach
    \/ Respond

SpecPayload == InitPayload /\ [][NextPayload]_vars

InitRetry ==
    /\ AppInit
    /\ max_attempts = 1
    /\ BotInit
    /\ max_retries = 1
    /\ send_raises = FALSE
    /\ PubInit
    /\ hook = NoHook
    /\ \E attempt \in 0..MaxAttemptNumber, now \in ProbeTimes :
         probe = [NoProbe EXCEPT !.attempt = attempt, !.now = now]

NextRetry ==
    \/ CallNextAttempt
    \/ CallNextDelay

SpecRetry == InitRetry /\ [][NextRetry]_vars

----------------------------------------------------------------------------
(* Claims about app *)

\* a worker that fetch_next_event has selected or returned row e to
Got(w, e) == wk[w].pc \in Holding \cup {"selected"} /\ wk[w].event.id = e

\* C1: for any interleaving of concurrent fetch_next_event callers on the same
\* store, an event is in the hands of at most one caller at a time: while one
\* caller has received it, its state stays 'processing' and no other caller
\* receives it.
C1_SingleClaimer ==
    \A e \in EventIds :
        /\ Cardinality({w \in Workers : Got(w, e)}) <= 1
        /\ (\E w \in Workers : Holds(w, e)) => events[e].state = "processing"

\* C1 witness: one caller holds an event while the other is inside the claim
\* transaction of its own fetch_next_event.
C1_Witness ==
    \E e \in EventIds : \E w1, w2 \in Workers :
        /\ w1 # w2
        /\ Holds(w1, e)
        /\ wk[w2].pc = "tx"

\* a correlation key of the insert is already in the table
SameKey(row, w, s, h) ==
    \/ row.payload_hash = h
    \/ (w # NULL /\ row.whapi_event_id = w)
    \/ (s # NULL /\ row.source_status_id = s)

\* C2: an insert_event whose payload_hash, whapi_event_id or source_status_id
\* equals that of a row already stored returns None and leaves the number of
\* rows and every row unchanged.
C2_DuplicateInsertIgnored ==
    [][\A w \in WhapiIds, s \in StatusIds, h \in Hashes :
          (InsertEvent(w, s, h) /\ \E i \in EventIds : SameKey(events[i], w, s, h))
              => (events' = events /\ insert_ret' = NoRow)]_vars

\* C2 witness: an insert has returned None while the table holds a row that
\* has already been claimed.
C2_Witness ==
    /\ insert_ret = NoRow
    /\ \E i \in EventIds : events[i].state # "queued"
    /\ \E i \in EventIds : events[i].whapi_event_id # NULL
    /\ \E i \in EventIds : events[i].source_status_id # NULL

\* C3: every event has 0 <= attempts <= max_attempts, and no row that
\* fetch_next_event selects or returns had attempts = max_attempts.
C3_AttemptsBounded ==
    /\ \A e \in EventIds : 0 <= events[e].attempts /\ events[e].attempts <= max_attempts
    /\ \A w \in Workers :
          wk[w].pc \in Holding \cup {"selected"} => wk[w].event.attempts < max_attempts

\* C3 witness: an exhausted event whose retry time has come, and a worker in a
\* fetch_next_event called at or after that time.
C3_Witness ==
    \E e \in EventIds : \E w \in Workers :
        /\ events[e].attempts = max_attempts
        /\ events[e].state = "failed"
        /\ events[e].next_attempt_at # NoTime
        /\ wk[w].pc = "tx"
        /\ events[e].next_attempt_at <= wk[w].now

\* event e has failed its first claim and waits for its retry
FirstFailed(e) ==
    /\ events[e].state = "failed"
    /\ events[e].attempts = 1
    /\ events[e].next_attempt_at # NoTime

\* the fetch_next_event of w ends in this step (it is not killed)
FetchEnds(w) == wk[w].pc = "tx" /\ wk'[w].pc \in {"poll", "selected"}

\* the first failure of an event sets its retry time to the failure time + 60 s
C4_BackoffSet ==
    \A e \in EventIds :
        (events[e].state = "processing" /\ events[e].attempts = 1
            /\ events'[e].state = "failed")
        => events'[e].next_attempt_at = clock + 60

\* a fetch_next_event with now before the retry time does not select the event
C4_NotBefore ==
    \A w \in Workers : \A e \in EventIds :
        (FetchEnds(w) /\ FirstFailed(e) /\ wk[w].now < events[e].next_attempt_at)
        => ~(wk'[w].pc = "selected" /\ wk'[w].event.id = e)

\* the claim after the first failure raises attempts to 2
C4_AttemptTwo ==
    \A w \in Workers :
        (wk[w].pc = "selected" /\ wk'[w].pc = "download" /\ FirstFailed(wk[w].event.id))
        => events'[wk[w].event.id].attempts = 2

\* C4 as stated (read with attempts < max_attempts): after an event's first
\* claim fails its next_attempt_at is the failure time plus 60 seconds; a
\* fetch_next_event with now earlier than that does not return it; a
\* fetch_next_event with now at or after it returns it and raises attempts to 2.
C4_AsStated ==
    [][/\ C4_BackoffSet
       /\ C4_NotBefore
       /\ C4_AttemptTwo
       /\ \A w \in Workers : \A e \in EventIds :
             (FetchEnds(w) /\ FirstFailed(e) /\ 1 < max_attempts
                 /\ events[e].next_attempt_at <= wk[w].now)
             => (wk'[w].pc = "selected" /\ wk'[w].event.id = e)]_vars

\* C4, with the order of the queue: after an event's first claim fails its
\* next_attempt_at is the failure time plus 60 seconds; a fetch_next_event with
\* now earlier than that does not return it; a fetch_next_event with now at or
\* after it returns it, when attempts < max_attempts and no other claimable
\* event was received before it, and raises its attempts to 2.
C4_FirstRetry ==
    [][/\ C4_BackoffSet
       /\ C4_NotBefore
       /\ C4_AttemptTwo
       /\ \A w \in Workers : \A e \in EventIds :
             (FetchEnds(w) /\ FirstFailed(e) /\ 1 < max_attempts
                 /\ events[e].next_attempt_at <= wk[w].now
                 /\ \A o \in EventIds \ {e} :
                       Eligible(events[o], wk[w].now, max_attempts)
                           => ReceivedBefore(events[e], events[o]))
             => (wk'[w].pc = "selected" /\ wk'[w].event.id = e)]_vars

\* C4 witness: an event claimed for the second time, after its backoff, while
\* another event is stored.
C4_Witness ==
    \E w \in Workers :
        /\ wk[w].pc = "download"
        /\ wk[w].event.state = "failed"
        /\ wk[w].event.attempts = 1
        /\ wk[w].event.next_attempt_at = 60
        /\ events[wk[w].event.id].attempts = 2
        /\ Len(events) = 2

\* event e is 'processing' and no running worker has it: its worker was killed
\* or ended by an unexpected exception
Orphaned(e) ==
    /\ e \in EventIds
    /\ events[e].state = "processing"
    /\ \A w \in Workers : ~Holds(w, e)

\* C8: an event that was 'processing' when its process was killed is not lost:
\* with the workers restarted and running, it is eventually claimed again.
C8_CrashedClaimResumed ==
    \A e \in 1..MaxEvents : Orphaned(e) ~> (\E w \in Workers : Holds(w, e))

\* C9: an event whose publish step was rejected for good is 'failed' and is
\* never claimed again.
C9_RejectedIsTerminal ==
    \A e \in EventIds :
        hist[e].rejected =>
            /\ events[e].state = "failed"
            /\ \A w \in Workers : ~Got(w, e)

----------------------------------------------------------------------------
(* Claims about the retry policies *)

\* the delay the backoff table prescribes after failed attempt k, the last
\* entry being reused beyond the table
TableDelay(k) == IF k <= Len(backoff) THEN backoff[k] ELSE backoff[Len(backoff)]

\* C5: the retry time computed after failed attempt k >= 1 is the failure time
\* plus the k-th entry of the backoff table, the last entry being reused when k
\* exceeds the table length; it is a non-null time later than the failure time.
C5_BackoffTable ==
    ("_next_attempt" \in probe.called /\ probe.attempt >= 1) =>
        /\ probe.next_attempt # NoTime
        /\ probe.next_attempt = probe.now + TableDelay(probe.attempt)
        /\ probe.next_attempt > probe.now

\* C6: _next_delay(k) is the k-th entry of _RETRY_DELAYS for 1 <= k <= len, the
\* last entry for every larger k, and no smaller than _next_delay(j) for any
\* j <= k.
C6_NextDelayTable ==
    "_next_delay" \in probe.called =>
        LET k == probe.attempt IN
        /\ (1 <= k /\ k <= Len(_RETRY_DELAYS)) => probe.delay = _RETRY_DELAYS[k]
        /\ k > Len(_RETRY_DELAYS) => probe.delay = _RETRY_DELAYS[Len(_RETRY_DELAYS)]
        /\ \A j \in 1..k : _next_delay(j) <= probe.delay

\* C6 witness: _next_delay has been called with an attempt number beyond the
\* table and has returned the last entry.
C6_Witness ==
    /\ "_next_delay" \in probe.called
    /\ probe.attempt > Len(_RETRY_DELAYS)
    /\ probe.delay = 15

----------------------------------------------------------------------------
(* Claims about bot *)

\* the task is queued, being processed or waiting for its delayed_reenqueue
Submitted(id) ==
    \/ \E i \in 1..Len(queue) : queue[i] = id
    \/ id \in in_progress
    \/ \E timer \in timers : timer.task = id

\* C7: a task whose prepare stage was interrupted by a kill (src_path stored,
\* status 'downloaded' or 'preparing', no prepared_path) is submitted again by
\* requeue_pending_tasks after the restart, and the _process_task that resumes
\* it calls the download stage not at all and the prepare stage exactly once.
C7_ResumeSkipsDownload ==
    /\ \A id \in interrupted : (bot_up /\ InPrepare(tasks[id])) => Submitted(id)
    /\ \A w \in BotWorkers : bw[w].resumed => (bw[w].dl = 0 /\ bw[w].prep = 1)

\* C7 witness: after a kill during the prepare stage and a restart, the resumed
\* _process_task has returned with the task prepared.
C7_Witness ==
    \E w \in BotWorkers :
        /\ bw[w].resumed
        /\ bw[w].pc = "idle"
        /\ bw[w].task \in interrupted
        /\ tasks[bw[w].task].status = "prepared"
        /\ bot_crashes > 0

\* the errors _process_task raises itself for a task it can never process
PermanentErrors == {"missing file_id", "Unsupported media_type"}

\* C10: a task whose latest failure was a permanent one (no file_id, media
\* type unknown to the prepare stage) is 'failed' and has no retry scheduled.
C10_PermanentFailsAtOnce ==
    \A id \in TaskIds :
        tasks[id].last_error \in PermanentErrors =>
            /\ tasks[id].status = "failed"
            /\ \A timer \in timers : timer.task # id

\* task id is being executed by the _process_task of worker w
Executing(w, id) == bw[w].pc # "idle" /\ bw[w].task = id

\* C11: whatever ids are pushed with enqueue_task, the same id several times
\* included, no two workers execute _process_task for the same task id.
C11_OneWorkerPerTask ==
    \A id \in TaskIds :
        /\ Cardinality({w \in BotWorkers : Executing(w, id)}) <= 1
        /\ (\E w \in BotWorkers : Executing(w, id)) => id \in in_progress

\* C11 witness: a worker has taken from the queue the id of a task that another
\* worker is executing, and has let it go.
C11_Witness ==
    \E w1, w2 \in BotWorkers :
        /\ w1 # w2
        /\ bw[w1].pc = "idle"
        /\ bw[w1].dropped # NoRow
        /\ Executing(w2, bw[w1].dropped)

----------------------------------------------------------------------------
(* Claims about publisher *)

\* C12: for every delivery send_story completes successfully at most once over
\* an execution, kills of the process between send_story and mark_posted and
\* restarts included.
C12_PublishedAtMostOnce ==
    \A d \in DeliveryIds : stories[d] <= 1

\* the table holds a delivery of the task to the target
HasDelivery(task_id, target) ==
    \E i \in DeliveryIds :
        deliveries[i].task_id = task_id /\ deliveries[i].target = target

\* rows i and j are deliveries of the same task to the same target
SameDelivery(rows, i, j) ==
    rows[i].target = rows[j].target /\ rows[i].task_id = rows[j].task_id

\* C19: there is at most one delivery row per (target, task_id), and an
\* enqueue_delivery for a pair that has a row changes nothing: no second row,
\* and a posted or failed delivery is not set back to 'queued'.
C19_OneDeliveryPerTarget ==
    [][/\ \A i, j \in 1..Len(deliveries') :
             SameDelivery(deliveries', i, j) => i = j
       /\ \A task_id \in 1..MaxTasks, target \in Targets :
             (enqueue_delivery(task_id, target) /\ HasDelivery(task_id, target))
                 => deliveries' = deliveries]_vars

\* C19 witness: the table holds a posted and a failed delivery of tasks that
\* each have a delivery to the other target as well, and is full, so that every
\* further enqueue_delivery meets a row of its pair.
C19_Witness ==
    /\ Len(deliveries) = MaxDeliveries
    /\ \E i \in DeliveryIds : deliveries[i].status = "posted"
    /\ \E i, j \in DeliveryIds :
          /\ i # j
          /\ deliveries[i].task_id = deliveries[j].task_id
          /\ deliveries[i].status # "queued"

\* C13: a task that was waiting out its retry delay (after a download, prepare
\* or notify failure) when the process was killed is submitted for processing
\* by the restart.
C13_RetrySurvivesRestart ==
    [][(~bot_up /\ bot_up') => \A id \in delayed : \E i \in 1..Len(queue') : queue'[i] = id]_vars

\* C14: when the notify/OCR stage of a prepared task fails, the task's status
\* is still 'prepared' and its src_path and prepared_path are unchanged.
C14_NotifyFailureKeepsPrepared ==
    [][\A w \in BotWorkers :
          (bw[w].pc = "notify" /\ bw'[w].pc = "idle")
          => LET id == bw[w].task IN
             /\ tasks'[id].status = "prepared"
             /\ tasks'[id].src_path = tasks[id].src_path
             /\ tasks'[id].prepared_path = tasks[id].prepared_path]_vars

----------------------------------------------------------------------------
(* Claims about the webhook *)

\* the shape of the selfcheck sample: from_me, marked as a status by its type,
\* a media dict with an id, no image or video dict
SampleShape(message) ==
    /\ message.from_me = "true"
    /\ message.type = "status"
    /\ message.media = "id"
    /\ message.image = NULL
    /\ message.video = NULL

\* the store holds a row with a key of the extracted event
Stored(event) ==
    \E i \in EventIds :
        \/ events[i].payload_hash = 1
        \/ (event.whapi_event_id # NULL /\ events[i].whapi_event_id = event.whapi_event_id)
        \/ (event.source_status_id # NULL /\ events[i].source_status_id = event.source_status_id)

\* C15: extract_status_events returns a non-empty list for a message of the
\* selfcheck sample's shape, and insert_event of an extracted event into a
\* store that does not hold it returns a row id.
C15_SampleIsExtracted ==
    [][/\ (hook'.pc = "extracted" /\ SampleShape(hook'.message)) => hook'.events # <<>>
       /\ (InsertExtracted /\ ~Stored(hook.events[1])) => insert_ret' # NoRow]_vars

----------------------------------------------------------------------------
(* Claims about graceful shutdown *)

\* C16: a worker that finds its stop event set at the head of its loop begins
\* no claim, and stop() ends only when run() has ended, with no event left in
\* state 'processing' by this worker.
C16_StopWaitsForInFlight ==
    [][\A w \in Workers :
          /\ (stop_call[w].set /\ wk[w].pc = "poll") => wk'[w].pc # "tx"
          /\ (stop_call[w].ended = "no" /\ stop_call'[w].ended # "no")
                => /\ wk[w].pc \in {"ended", "dead"}
                   /\ \A e \in EventIds :
                         events'[e].state = "processing" => hist'[e].by # w]_vars

\* stop() was called while process_event ran, and has returned
C16_Witness ==
    \E w \in Workers :
        /\ stop_call[w].ended = "returned"
        /\ stop_call[w].during \in Holding
        /\ \E e \in EventIds : hist[e].by = w /\ events[e].state \in {"posted", "failed"}

----------------------------------------------------------------------------
(* Claims about terminal states *)

\* posted, or failed with the attempts used up
Terminal(row) ==
    \/ row.state = "posted"
    \/ (row.state = "failed" /\ row.attempts = max_attempts)

\* C17: no step changes an event that is posted or is failed with attempts =
\* max_attempts, and no step changes a task whose status is 'failed'.
C17_TerminalAbsorbing ==
    [][/\ \A e \in EventIds : Terminal(events[e]) => events'[e] = events[e]
       /\ \A id \in TaskIds : tasks[id].status = "failed" => tasks'[id] = tasks[id]]_vars

\* a failed task was handed to a later _process_task, which returned at once:
\* it read the attempts the row has and called neither download nor prepare
C17_Witness ==
    \E w \in BotWorkers :
        /\ bw[w].pc = "idle"
        /\ bw[w].task \in TaskIds
        /\ tasks[bw[w].task].status = "failed"
        /\ bw[w].attempts = tasks[bw[w].task].attempts
        /\ bw[w].dl = 0
        /\ bw[w].prep = 0

----------------------------------------------------------------------------
(* Claims about the bot's ingestion *)

\* C18: a message delivered twice to _handle_media_message makes at most one
\* task row, and at most one task id is enqueued for it.
C18_IngestDeduplicates ==
    /\ \A i, j \in TaskIds : tasks[i].tg_message_id = tasks[j].tg_message_id => i = j
    /\ \A i, j \in 1..Len(queue) :
          tasks[queue[i]].tg_message_id = tasks[queue[j]].tg_message_id
              => queue[i] = queue[j]

----------------------------------------------------------------------------
(* Claims about fetch_next_event *)

\* what the claim calls claimable at the time now
Claimable(row, now) ==
    /\ row.state \in {"queued", "failed"}
    /\ row.attempts < max_attempts
    /\ (row.next_attempt_at = NoTime \/ row.next_attempt_at <= now)

\* C20: fetch_next_event(now, max_attempts) returns None only when no event is
\* claimable at now; the event it returns is claimable at now and none of the
\* claimable events has a smaller received_at; its state becomes 'processing',
\* its attempts grow by one, and no other row changes.
C20_FetchReturnsEarliestClaimable ==
    [][\A w \in Workers :
          /\ (wk[w].pc = "tx" /\ wk'[w].pc = "poll")
                => \A e \in EventIds : ~Claimable(events[e], wk[w].now)
          /\ (wk[w].pc = "tx" /\ wk'[w].pc = "selected")
                => /\ wk'[w].event.id \in EventIds
                   /\ wk'[w].event = events[wk'[w].event.id]
                   /\ Claimable(wk'[w].event, wk[w].now)
                   /\ \A e \in EventIds :
                         Claimable(events[e], wk[w].now)
                             => wk'[w].event.received_at <= events[e].received_at
          /\ (wk[w].pc = "selected" /\ wk'[w].pc = "download")
                => /\ events' = [events EXCEPT ![wk[w].event.id].state = "processing",
                                                ![wk[w].event.id].attempts = @ + 1]
                   /\ Claimable(events[wk[w].event.id], wk[w].now)]_vars

\* a fetch has returned the earlier of two events, the later one is still queued
C20_Witness ==
    \E w \in Workers : \E o \in EventIds :
        /\ wk[w].pc = "download"
        /\ events[wk[w].event.id].state = "processing"
        /\ events[wk[w].event.id].attempts = wk[w].event.attempts + 1
        /\ events[o].state = "queued"
        /\ events[o].received_at > wk[w].event.received_at

----------------------------------------------------------------------------
(* Claims about progress in app *)

\* C21: with no kill, time passing, fair workers and collaborator failures
\* that process_event catches, every inserted event is eventually posted, or
\* failed with attempts = max_attempts.
C21_EveryEventEnds ==
    \A e \in 1..MaxEvents :
        (e \in EventIds) ~> (e \in EventIds /\ Terminal(events[e]))

\* an event has failed, was claimed again after its backoff and is exhausted,
\* another one is posted
C21_Witness ==
    \E e, o \in EventIds :
        /\ events[e].state = "failed"
        /\ events[e].attempts = max_attempts
        /\ max_attempts = 2
        /\ events[o].state = "posted"

----------------------------------------------------------------------------
(* Claims about failures in app *)

\* C22: when the processing of an event fails, whatever the collaborator
\* raised, the event is marked failed and the worker's loop goes on polling.
C22_FailureKeepsWorkerRunning ==
    [][\A w \in Workers :
          (/\ wk[w].pc \in Holding
           /\ wk'[w].pc \notin Holding \cup {"off"})
              => wk'[w].pc = "poll"]_vars

----------------------------------------------------------------------------
(* Claims about the bot's worker pool and its attempts *)

\* the worker_loop coroutines that are running
Running == {w \in BotWorkers : bw[w].pc # "dead"}

\* C23: while the bot is up, WORKER_CONCURRENCY worker_loop coroutines are
\* running, whatever the outcomes of the tasks.
C23_PoolKeepsItsSize ==
    bot_up => Cardinality(Running) = WORKER_CONCURRENCY

\* C24: no task ever has attempts > MAX_RETRIES, and no failed processing
\* raises attempts by more than one.
C24_AttemptsCountFailures ==
    [][\A id \in TaskIds :
          /\ tasks'[id].attempts <= max_retries
          /\ tasks'[id].attempts <= tasks[id].attempts + 1]_vars

----------------------------------------------------------------------------
(* Claims about attempts in app *)

\* C25: attempts of an event is the number of times fetch_next_event has
\* claimed it: only the UPDATE of fetch_next_event changes it, by +1, and
\* mark_processing_paths, mark_posted and mark_failed leave it alone.
C25_AttemptsCountClaims ==
    [][\A e \in EventIds :
          /\ events'[e].attempts = hist'[e].claims
          /\ events'[e].attempts # events[e].attempts
                => /\ events'[e].attempts = events[e].attempts + 1
                   /\ \E w \in Workers :
                         /\ wk[w].pc = "selected"
                         /\ wk[w].event.id = e
                         /\ wk'[w].pc = "download"]_vars

\* an event was claimed twice, its paths were stored and it failed and was
\* posted in turn: attempts is 2
C25_Witness ==
    \E e \in EventIds :
        /\ events[e].state = "posted"
        /\ events[e].stored_prepared_path # NULL
        /\ events[e].next_attempt_at # NoTime
        /\ events[e].attempts = 2

\* C26: an event claimed again with stored_original_path and
\* stored_prepared_path persisted is taken up at the publish stage:
\* process_event does not download and prepare it again.
C26_ReclaimResumesAtPublish ==
    [][\A w \in Workers :
          (/\ wk[w].pc = "selected"
           /\ wk'[w].pc \in Holding
           /\ wk[w].event.stored_original_path # NULL
           /\ wk[w].event.stored_prepared_path # NULL)
              => wk'[w].pc = "publish"]_vars

----------------------------------------------------------------------------
(* Claims about the publisher's failures *)

\* process_delivery is working on delivery d
Picked(d) ==
    /\ pub.pc \in {"check", "send", "persist"}
    /\ Head(pub.batch).delivery_id = d

\* C27: a delivery whose send_story has raised is picked up again by a later
\* run_once.
C27_FailedSendIsRetried ==
    \A d \in 1..MaxDeliveries :
        (d \in DeliveryIds /\ deliveries[d].error = "story publish failed")
            ~> Picked(d)

\* no notify of the task has failed yet: set_task_prepared clears last_error
\* and only _handle_notify_failure writes this text
FirstNotify(id) == tasks[id].last_error # "notify failed"

\* C28: the notify stage has a retry budget of its own: the first notify
\* failure of a prepared task gives the task up only when MAX_RETRIES is 1,
\* however many download or prepare failures came before.
C28_NotifyBudgetIsItsOwn ==
    [][\A w \in BotWorkers :
          (/\ bw[w].pc = "notify"
           /\ FirstNotify(bw[w].task)
           /\ tasks[bw[w].task].status = "prepared"
           /\ tasks'[bw[w].task].status = "failed")
          => max_retries = 1]_vars

\* the statuses the startup requeue is for
InFlight == {"queued", "downloading", "downloaded", "preparing"}

\* C29: status and src_path of every task agree (queued or downloading: no
\* src_path; downloaded, preparing or prepared: a src_path), and so
\* get_pending_task_ids returns every task whose status is in flight.
C29_StatusAndSrcPathAgree ==
    \A id \in TaskIds :
        LET row == tasks[id]
            pending == get_pending_task_ids(tasks)
        IN  /\ row.status \in {"queued", "downloading"} => row.src_path = NULL
            /\ row.status \in {"downloaded", "preparing", "prepared"} => row.src_path # NULL
            /\ row.status \in InFlight => \E i \in 1..Len(pending) : pending[i] = id

\* the process has been killed with one task downloading and another one
\* downloaded or preparing: both wait for the startup requeue
C29_Witness ==
    /\ ~bot_up
    /\ \E id \in TaskIds : tasks[id].status = "downloading"
    /\ \E id \in TaskIds : tasks[id].status \in {"downloaded", "preparing"}

\* the stage worker w is awaiting, and the row of its task
InStage(w, stage) == bot_up /\ bw[w].pc = stage

\* each stage is awaited for a row in the state the stage is for
StagesInOrder ==
    \A w \in BotWorkers :
        LET row == tasks[bw[w].task]
        IN  /\ InStage(w, "download") => row.src_path = NULL
            /\ InStage(w, "prepare") => row.src_path # NULL /\ row.prepared_path = NULL
            /\ InStage(w, "notify") => row.prepared_path # NULL

\* a path that is set stays as it is
PathsKept ==
    \A id \in TaskIds :
        /\ tasks[id].src_path # NULL => tasks'[id].src_path = tasks[id].src_path
        /\ tasks[id].prepared_path # NULL =>
               tasks'[id].prepared_path = tasks[id].prepared_path

\* C30: the stages of a task run strictly in order (download only without a
\* src_path, prepare only with a src_path and without a prepared_path, notify
\* only with a prepared_path), and src_path and prepared_path, once set, are
\* never cleared or overwritten.
C30_StagesRunInOrder == []StagesInOrder /\ [][PathsKept]_vars

\* a task that failed before is in its second notify call: the retry went
\* straight to the notify stage
C30_Witness ==
    \E w \in BotWorkers :
        /\ InStage(w, "notify")
        /\ tasks[bw[w].task].attempts >= 1
        /\ ~FirstNotify(bw[w].task)

\* the worker is waiting for a collaborator: download_media and the transform,
\* or upload_media and post_status
InCollaboratorCall(w) == wk[w].pc \in Holding

\* C31: no store transaction is open across a collaborator call: a worker that
\* is in download, transform, upload or post holds no transaction (the claim
\* was committed before process_event started), and the write lock is held
\* only between BEGIN IMMEDIATE and COMMIT of fetch_next_event.
C31_NoTransactionAcrossCalls ==
    \A w \in Workers :
        /\ InCollaboratorCall(w) => db_lock # w
        /\ db_lock = w => wk[w].pc \in {"tx", "selected"}

\* one worker is in a collaborator call while the other one is inside the
\* claim transaction
C31_Witness ==
    \E w, v \in Workers : InCollaboratorCall(w) /\ db_lock = v /\ wk[v].pc = "selected"

\* C32: while the worker of the web process is inside the transform, a webhook
\* request can still run insert_event: with a row left to insert and the
\* store unlocked, the handler's insert is enabled.
C32_WebhookRunsDuringTransform ==
    (wk["web"].pc = "transform" /\ db_lock = NoLock /\ Len(events) < MaxEvents)
        => ENABLED (\E h \in Hashes : WebhookInsert(NULL, NULL, h))

\* the process is in send_story, or past it, for the delivery
Sending(process, d) ==
    process.pc \in {"send", "persist"} /\ Head(process.batch).delivery_id = d

\* C33: two publisher processes never both invoke send_story for one
\* delivery: while one of them is in send_story for a delivery, the other
\* one is not, and no send_story for that delivery has returned or failed.
C33_OneSendPerDelivery ==
    \A d \in DeliveryIds :
        \A p \in {<<pub, rival>>, <<rival, pub>>} :
            (p[1].pc = "send" /\ Head(p[1].batch).delivery_id = d)
                => /\ ~Sending(p[2], d)
                   /\ stories[d] = 0
                   /\ deliveries[d].error # "story publish failed"

\* process_delivery is running for the delivery
Handling(d) ==
    pub.pc \in {"check", "send", "persist"} /\ Head(pub.batch).delivery_id = d

\* process_delivery is over for the delivery, and not by a kill
Handled(d) ==
    /\ Handling(d)
    /\ pub' # pub
    /\ pub'.pc \notin {"send", "persist"}
    /\ pub_crashes' = pub_crashes

\* C34: process_delivery ends every delivery it handles as 'posted' or
\* 'failed' and run_once goes on to the next delivery of the batch, whatever
\* can_send_story and send_story do; send_story is invoked only for a
\* delivery with a prepared_path.
C34_EveryDeliveryIsSettled ==
    /\ [](pub.pc = "send" => Head(pub.batch).prepared_path # NULL)
    /\ [][\A d \in DeliveryIds :
             Handled(d) => /\ deliveries'[d].status \in {"posted", "failed"}
                           /\ pub' = NextDelivery]_vars

\* the message was sent by the account itself
SentByMe(message) ==
    \/ message.from_me = "true"
    \/ (message.from_me = NULL /\ message.from = "me")

\* the message is marked as a status
MarkedAsStatus(message) ==
    \/ message.type \in {"status", "story"}
    \/ message.chat_type \in {"status", "story"}
    \/ message.is_status

\* what whapi_webhook passes to insert_event as the columns of the row
RecognisedEvent(event, message) ==
    /\ event.media_type \in {"photo", "video"}
    /\ (event.media_remote_id # NULL \/ event.media_url # NULL)
    /\ SentByMe(message)
    /\ MarkedAsStatus(message)

AllRecognised ==
    \A k \in 1..Len(hook.messages) :
        extract_status_events(hook.event_id, hook.messages[k]) # <<>>

\* C36: a payload of n recognized status messages with pairwise distinct ids
\* and contents, none of them in the store, inserts n rows and reports
\* inserted = n, with or without a top-level event_id.
C36_EveryMessageIsInserted ==
    (hook.pc = "accepted" /\ AllRecognised)
        => /\ hook.inserted = Len(hook.messages)
           /\ Len(events) = Len(hook.messages)

\* the request carries a wrong signature, or no signature and a provided
\* secret that is not the configured one
FailsVerification ==
    \/ hook.signature \in {"bad", "sha256=bad"}
    \/ (hook.signature = NULL /\ hook.provided_secret # webhook_secret)

\* C37: a webhook request that fails verify_webhook is rejected and leaves the
\* store as it was: no row is inserted or modified.
C37_RejectedRequestLeavesStore ==
    /\ [](FailsVerification => hook.pc \in {"arrived", "rejected"})
    /\ [][FailsVerification => /\ hook.pc = "arrived" => hook'.pc = "rejected"
                               /\ events' = events
                               /\ insert_ret' = insert_ret]_vars

\* a request with a wrong signature and the right secret has been rejected
C37_Witness ==
    /\ hook.pc = "rejected"
    /\ hook.signature = "sha256=bad"
    /\ hook.provided_secret = webhook_secret

\* C38: an event in state 'posted' has stored_original_path,
\* stored_prepared_path and posted_at set and last_error null, and every
\* event has stored_original_path set if and only if stored_prepared_path is
\* set.
C38_PostedRowIsComplete ==
    \A e \in EventIds :
        /\ events[e].state = "posted" =>
               /\ events[e].stored_original_path # NULL
               /\ events[e].stored_prepared_path # NULL
               /\ events[e].posted_at # NoTime
               /\ events[e].last_error = NULL
        /\ events[e].stored_original_path # NULL <=> events[e].stored_prepared_path # NULL

\* an event has been posted at its second attempt, after a failure that left
\* an error text, while another event has failed with its paths stored
C38_Witness ==
    \E e, f \in EventIds :
        /\ events[e].state = "posted"
        /\ events[e].attempts = 2
        /\ events[f].state = "failed"
        /\ events[f].stored_prepared_path # NULL

\* worker w is inside _process_task for the task
InProcessTask(w, id) ==
    bw[w].pc \in {"download", "prepare", "notify"} /\ bw[w].task = id

\* worker w takes from the queue an id that is in _IN_PROGRESS
TakesInProgress(w) ==
    /\ bot_up /\ bot_up'
    /\ bw[w].pc = "idle"
    /\ queue # <<>>
    /\ Head(queue) \in in_progress
    /\ bw'[w] # bw[w]

\* C39: _IN_PROGRESS holds a task id exactly while a worker is executing
\* _process_task for it, whether _process_task returns or raises, and an id
\* taken from the queue while it is in progress is dropped: it is not
\* processed and not put back.
C39_InProgressIsExact ==
    /\ [](in_progress = {id \in TaskIds : \E w \in BotWorkers : InProcessTask(w, id)})
    /\ [][\A w \in BotWorkers :
             TakesInProgress(w) => /\ bw'[w].pc = "idle"
                                   /\ bw'[w].dropped = Head(queue)
                                   /\ queue' = Tail(queue)
                                   /\ UNCHANGED <<tasks, in_progress, timers>>]_vars

\* one worker_loop has ended with an exception and has left _IN_PROGRESS
\* empty, and the other one has dropped an id that was in progress
C39_Witness ==
    \E w1, w2 \in BotWorkers :
        /\ bw[w1].pc = "dead"
        /\ bw[w2].pc = "idle"
        /\ bw[w2].dropped # NoRow
        /\ in_progress = {}

====
